---- MODULE Spec2Model ----
(***************************************************************************)
(* A model of the HTTPS development proxy of src/index.js (class DevProxy): *)
(* construction and validation of the configuration, start()/stop() of the  *)
(* TLS listener, the per-request routing decision, the header transforms    *)
(* of the API client, the relay of upstream responses, the 'error' handlers  *)
(* of the upstream clients, and the command-line program of src/cli.js.     *)
(***************************************************************************)
EXTENDS Integers, Sequences, FiniteSets, Bags, TLC

VARIABLES
    phase,      \* "new" | "constructed" | "ctorFailed": the `new DevProxy(input)` call
    input,      \* the object handed to the constructor
    config,     \* this.config
    appProxy,   \* this.appProxy: id of an upstream client, Null when null
    apiProxy,   \* this.apiProxy
    server,     \* this.server: id of an https server, Null when null
    proxies,    \* the upstream clients made by start(), by id
    nServers,   \* how many https servers start() has created
    bound,      \* the servers that hold the proxy port (listening)
    pendingErr, \* servers with an 'error' event queued by a failed listen()
    crashed,    \* the process died of an uncaught exception
    fatal,      \* the uncaught exception it died of, NoFatal while it runs
    portBusy,   \* another process holds the proxy port
    env,        \* process.env, as the command-line program finds it
    cli,        \* the command-line program: where it is, its exit code, its error output
    files,      \* the paths that exist on disk
    reads,      \* the paths readFileSync has read
    call,       \* the last call made: "none", "loadConfig", "constructor", "start", "stop"
    thrown,     \* the message of the error that call threw, NoError when it returned
    reqs        \* the requests in flight: a bag of request records

vars == <<phase, input, config, appProxy, apiProxy, server, proxies, nServers,
          bound, pendingErr, crashed, fatal, portBusy, env, cli, files, reads, call, thrown, reqs>>

----------------------------------------------------------------------------
(* Bounds *)

MaxStarts == 2   \* start() calls that get as far as creating a server
MaxReq == 2      \* requests in flight at once

Null == 0
NoError == <<>>

\* What ended the process: where the exception was thrown, and its message.
NoFatal == [source |-> "none", error |-> NoError]

----------------------------------------------------------------------------
(* JavaScript values of the configuration fields *)

Undef == [t |-> "undefined", n |-> 0, s |-> "", b |-> FALSE]
Num(x) == [t |-> "number", n |-> x, s |-> "", b |-> FALSE]
Str(x) == [t |-> "string", n |-> 0, s |-> x, b |-> FALSE]
Bool(x) == [t |-> "boolean", n |-> 0, s |-> "", b |-> x]
NaN == [t |-> "NaN", n |-> 0, s |-> "", b |-> FALSE]
\* The non-integer number x + 1/2
Frac(x) == [t |-> "fraction", n |-> x, s |-> "", b |-> FALSE]

\* ToBoolean: what `!v` and `v ? a : b` test
Truthy(v) ==
    CASE v.t = "undefined" -> FALSE
      [] v.t = "NaN" -> FALSE
      [] v.t = "number" -> v.n # 0
      [] v.t = "fraction" -> TRUE
      [] v.t = "string" -> v.s # ""
      [] v.t = "boolean" -> v.b

\* `v ?? d`
Coalesce(v, d) == IF v.t = "undefined" THEN d ELSE v

EmptyConfig ==
    [appPort |-> Undef, proxyPort |-> Undef, devDomain |-> Undef, apiLocal |-> Undef,
     apiBaseUrl |-> Undef, certsPath |-> Undef, showLogs |-> Undef]

\* The configurations handed to the constructor.
Inputs ==
    [appPort : {Undef, Num(0), Num(5173)},
     proxyPort : {Undef, Num(8443)},
     devDomain : {Undef, Str(""), Str("dev.test")},
     apiLocal : {Undef, Bool(TRUE)},
     apiBaseUrl : {Undef, Str("https://api.test")},
     certsPath : {Str(""), Str("/certs")},
     showLogs : {Undef}]

----------------------------------------------------------------------------
(* validateConfig *)

required == <<"appPort", "proxyPort", "devDomain", "apiBaseUrl", "certsPath">>

Min(S) == CHOOSE x \in S : \A y \in S : x <= y

\* A faulty validateConfig, for testing the properties: the required keys in
\* another order.
validateConfigReordered(cfg) ==
    LET order == <<"certsPath", "apiBaseUrl", "devDomain", "proxyPort", "appPort">>
        missing == {i \in 1..Len(order) : ~Truthy(cfg[order[i]])}
    IN  IF missing # {}
        THEN [threw |-> TRUE, error |-> <<order[Min(missing)], " is required">>,
              value |-> EmptyConfig]
        ELSE [threw |-> FALSE, error |-> NoError,
              value |-> [cfg EXCEPT !.apiLocal = Coalesce(cfg.apiLocal, Bool(FALSE)),
                                    !.showLogs = Coalesce(cfg.showLogs, Bool(TRUE))]]

validateConfig(cfg) ==
    LET missing == {i \in 1..Len(required) : ~Truthy(cfg[required[i]])}
    IN  IF missing # {}
        THEN [threw |-> TRUE, error |-> <<required[Min(missing)], " is required">>,
              value |-> EmptyConfig]
        ELSE [threw |-> FALSE, error |-> NoError,
              value |-> [appPort |-> cfg.appPort,
                         proxyPort |-> cfg.proxyPort,
                         devDomain |-> cfg.devDomain,
                         apiLocal |-> Coalesce(cfg.apiLocal, Bool(FALSE)),
                         apiBaseUrl |-> cfg.apiBaseUrl,
                         certsPath |-> cfg.certsPath,
                         showLogs |-> Coalesce(cfg.showLogs, Bool(TRUE))]]

----------------------------------------------------------------------------
(* The command-line program of src/cli.js: loadConfig *)

\* process.env: names to strings; a name that is not set reads undefined.
NoEnv == [k \in {} |-> Undef]
Lookup(e, name) == IF name \in DOMAIN e THEN e[name] ELSE Undef

\* parseInt(s, 10) on the strings the environments hold
parseInt(s) ==
    CASE s = "5173" -> Num(5173)
      [] s = "8443" -> Num(8443)
      [] OTHER -> NaN

\* The environments the program is run in. PROXY_API_LOCAL and PROXY_API_BASE_URL
\* hold a value of their own, or the name of another variable (API_LOCAL, API_URL).
Envs ==
    [PROXY_APP_PORT : {Undef, Str("5173")},
     PROXY_PORT : {Undef, Str("8443")},
     PROXY_DEV_DOMAIN : {Str("dev.test")},
     PROXY_API_LOCAL : {Undef, Str("true"), Str("API_LOCAL")},
     PROXY_API_BASE_URL : {Undef, Str("https://api.test"), Str("API_URL")},
     PROXY_CERTS_PATH : {Undef, Str("/certs")},
     PROXY_SHOW_LOGS : {Undef, Str("false")},
     API_LOCAL : {Undef, Str("true"), Str("false")},
     API_URL : {Undef, Str("https://api.test")}]

\* loadConfig(): PROXY_API_LOCAL and PROXY_API_BASE_URL must be set, and are read
\* as the names of the variables that hold the values.
loadConfig(e) ==
    LET PROXY_API_LOCAL == Lookup(e, "PROXY_API_LOCAL")
        PROXY_API_BASE_URL == Lookup(e, "PROXY_API_BASE_URL")
        API_LOCAL == Lookup(e, PROXY_API_LOCAL.s)
        API_BASE_URL == Lookup(e, PROXY_API_BASE_URL.s)
    IN  IF ~Truthy(PROXY_API_LOCAL)
        THEN [threw |-> TRUE, value |-> EmptyConfig,
              error |-> <<"Missing required environment variable: PROXY_API_LOCAL">>]
        ELSE IF ~Truthy(PROXY_API_BASE_URL)
        THEN [threw |-> TRUE, value |-> EmptyConfig,
              error |-> <<"Missing required environment variable: PROXY_API_BASE_URL">>]
        ELSE IF API_LOCAL = Undef
        THEN [threw |-> TRUE, value |-> EmptyConfig,
              error |-> <<"Environment variable ", PROXY_API_LOCAL.s, " is not defined">>]
        ELSE IF API_BASE_URL = Undef
        THEN [threw |-> TRUE, value |-> EmptyConfig,
              error |-> <<"Environment variable ", PROXY_API_BASE_URL.s, " is not defined">>]
        ELSE [threw |-> FALSE, error |-> NoError,
              value |->
                [appPort |-> IF Truthy(Lookup(e, "PROXY_APP_PORT"))
                             THEN parseInt(Lookup(e, "PROXY_APP_PORT").s) ELSE Undef,
                 proxyPort |-> IF Truthy(Lookup(e, "PROXY_PORT"))
                               THEN parseInt(Lookup(e, "PROXY_PORT").s) ELSE Undef,
                 devDomain |-> Lookup(e, "PROXY_DEV_DOMAIN"),
                 apiLocal |-> Bool(API_LOCAL = Str("true")),
                 apiBaseUrl |-> API_BASE_URL,
                 certsPath |-> Lookup(e, "PROXY_CERTS_PATH"),
                 showLogs |-> Bool(Lookup(e, "PROXY_SHOW_LOGS") # Str("false"))]]

\* The program: not run (the class is used as a library), at its entry, inside
\* its try block, or exited by process.exit.
CliOff == [pc |-> "off", exitCode |-> 0, stderr |-> <<>>]
CliEntry == [pc |-> "entry", exitCode |-> 0, stderr |-> <<>>]

----------------------------------------------------------------------------
(* loadSSLCertificates *)

\* path.join(certsPath, `${devDomain}-key.pem`) and path.join(certsPath, `${devDomain}.pem`)
keyPath(cfg) == <<cfg.certsPath.s, "/", cfg.devDomain.s, "-key.pem">>
certPath(cfg) == <<cfg.certsPath.s, "/", cfg.devDomain.s, ".pem">>

\* A faulty loadSSLCertificates: the certificate is checked before the key.
loadSSLCertificatesCertFirst(cfg, disk) ==
    IF certPath(cfg) \notin disk
    THEN [threw |-> TRUE, error |-> <<"SSL certificate not found at: ">> \o certPath(cfg),
          read |-> {}]
    ELSE IF keyPath(cfg) \notin disk
    THEN [threw |-> TRUE, error |-> <<"SSL key not found at: ">> \o keyPath(cfg),
          read |-> {}]
    ELSE [threw |-> FALSE, error |-> NoError, read |-> {keyPath(cfg), certPath(cfg)}]

loadSSLCertificates(cfg, disk) ==
    IF keyPath(cfg) \notin disk
    THEN [threw |-> TRUE, error |-> <<"SSL key not found at: ">> \o keyPath(cfg),
          read |-> {}]
    ELSE IF certPath(cfg) \notin disk
    THEN [threw |-> TRUE, error |-> <<"SSL certificate not found at: ">> \o certPath(cfg),
          read |-> {}]
    ELSE [threw |-> FALSE, error |-> NoError, read |-> {keyPath(cfg), certPath(cfg)}]

\* The certificate files a developer may or may not have generated.
KnownFiles == {<<"/certs", "/", "dev.test", "-key.pem">>, <<"/certs", "/", "dev.test", ".pem">>}

----------------------------------------------------------------------------
(* Upstream clients: httpProxy.createProxyServer(options) *)

\* `http://localhost:${appPort}`; the API target is apiBaseUrl as given (port NoPort)
NoPort == 0
AppTarget(cfg) == [base |-> "http://localhost:", port |-> cfg.appPort.n]
ApiTarget(cfg) == [base |-> cfg.apiBaseUrl.s, port |-> NoPort]

\* The host of a target URL, which changeOrigin puts in the outgoing Host header.
hostOf(target) ==
    CASE target = [base |-> "http://localhost:", port |-> 5173] -> "localhost:5173"
      [] target = [base |-> "https://api.test", port |-> NoPort] -> "api.test"
      [] OTHER -> "unknown"

\* createAppProxy(): no `secure` option is given, so TLS verification is not disabled.
createAppProxy(cfg) ==
    [target |-> AppTarget(cfg), changeOrigin |-> TRUE, secure |-> TRUE, handlers |-> "none"]

\* A faulty createAPIProxy: TLS verification disabled whatever apiLocal is.
createAPIProxyInsecure(cfg) ==
    [target |-> ApiTarget(cfg), changeOrigin |-> TRUE, secure |-> FALSE, handlers |-> "none"]

\* createAPIProxy(): secure: !this.config.apiLocal
createAPIProxy(cfg) ==
    [target |-> ApiTarget(cfg), changeOrigin |-> TRUE, secure |-> ~Truthy(cfg.apiLocal),
     handlers |-> "none"]

\* A faulty setupAppProxyHandlers: the API client's handlers registered on the app client.
setupAppProxyHandlersLikeApi(proxy) == [proxy EXCEPT !.handlers = "api"]

\* A faulty setupAPIProxyHandlers: nothing is registered on the client.
setupAPIProxyHandlersSkipped(proxy) == proxy

\* setupAppProxyHandlers / setupAPIProxyHandlers register the handlers on a client.
setupAppProxyHandlers(proxy) == [proxy EXCEPT !.handlers = "app"]
setupAPIProxyHandlers(proxy) == [proxy EXCEPT !.handlers = "api"]

\* The client handleSPAFallback makes for one request; nothing is registered on it.
fallbackProxy(cfg) ==
    [target |-> AppTarget(cfg), changeOrigin |-> TRUE, secure |-> TRUE, handlers |-> "none"]

NoProxy == [target |-> [base |-> "", port |-> NoPort], changeOrigin |-> FALSE,
            secure |-> FALSE, handlers |-> "none"]

----------------------------------------------------------------------------
(* Headers: a mapping from lower-cased names to values *)

EmptyHeaders == [k \in {} |-> ""]

\* Node stores and looks up header names case-insensitively.
lower(name) ==
    CASE name = "Cache-Control" -> "cache-control"
      [] name = "Host" -> "host"
      [] name = "Content-Type" -> "content-type"
      [] OTHER -> name

\* message.setHeader(name, value): replaces any value the name had
setHeader(h, name, value) ==
    [k \in DOMAIN h \cup {lower(name)} |-> IF k = lower(name) THEN value ELSE h[k]]

\* Object.keys(from).forEach(k => to.setHeader(k, from[k])) for the keys in `keys`
RECURSIVE copyHeaders(_, _, _)
copyHeaders(to, from, keys) ==
    IF keys = {} THEN to
    ELSE LET k == CHOOSE x \in keys : TRUE
         IN  copyHeaders(setHeader(to, k, from[k]), from, keys \ {k})

NoCache == "no-cache, no-store, must-revalidate"

\* Paths are sequences of characters.
startsWith(s, prefix) == Len(s) >= Len(prefix) /\ SubSeq(s, 1, Len(prefix)) = prefix

ApiPrefix == <<"/", "a", "p", "i", "/">>

\* The inbound paths and header sets the requests are drawn from.
Paths ==
    {<<"/", "a", "p", "i", "/", "u">>,
     <<"/", "a", "p", "i">>,
     <<"/", "a", "p", "i", "x">>,
     <<"/", "A", "P", "I", "/", "x">>,
     <<"/">>,
     <<"/", "d", "a", "s", "h">>}

\* The Host a caller reaches the proxy by: devDomain and proxyPort.
InHost == "dev.test:8443"

InHeaders ==
    {[k \in {"host"} |-> InHost],
     [k \in {"host", "cookie", "x-app-environment"} |->
        CASE k = "host" -> InHost [] k = "cookie" -> "sid=1" [] OTHER -> "production"],
     [k \in {"host", "x-app-environment"} |->
        IF k = "host" THEN InHost ELSE "local"]}

HPlain == [k \in {"host"} |-> InHost]
HEnv ==
    [k \in {"host", "cookie", "x-app-environment"} |->
        CASE k = "host" -> InHost [] k = "cookie" -> "sid=1" [] OTHER -> "production"]

\* The inbound HTTP requests: every header set on an API path, and the other
\* paths with cookies and an environment header of the caller's own.
Requests ==
    {[url |-> <<"/", "a", "p", "i", "/", "u">>, headers |-> h] : h \in InHeaders}
      \cup {[url |-> p, headers |-> HEnv] : p \in Paths \ {<<"/", "a", "p", "i", "/", "u">>}}

\* The inbound upgrade requests, and the requests handleSPAFallback is called on.
Upgrades ==
    {[url |-> p, headers |-> HEnv] : p \in {<<"/", "a", "p", "i", "/", "u">>, <<"/", "d", "a", "s", "h">>}}
Fallbacks == {[url |-> <<"/", "a", "p", "i", "/", "u">>, headers |-> HPlain]}

\* The header sets an upstream may answer with. Node gives the value of Set-Cookie
\* as the list of its occurrences, and of any other header as one string.
SetCookies == <<"sid=2; Path=/", "theme=dark">>

UpHeaders ==
    {[k \in {"content-type", "set-cookie"} |->
        IF k = "content-type" THEN "text/html" ELSE SetCookies],
     [k \in {"content-type", "cache-control"} |->
        IF k = "content-type" THEN "application/json" ELSE "max-age=3600"]}

----------------------------------------------------------------------------
(* Requests *)

NoOut == [url |-> <<>>, headers |-> EmptyHeaders, target |-> NoProxy.target]
\* The caller's side of an exchange: the ServerResponse of an HTTP request, or the
\* socket of an upgrade (which has no headersSent and no writeHead). writeHeads
\* counts the status lines written to the caller.
NoRes == [headers |-> EmptyHeaders, headersSent |-> FALSE, statusCode |-> 0,
          writeHeads |-> 0, body |-> "", ended |-> FALSE, destroyed |-> FALSE]

NoCode == "none"

\* A request as it arrives: the handler it entered by, its url as it came in
\* (inUrl) and as it is now (url), its headers; the client it was handed to, the
\* outgoing request (out) and the caller's response (res) are filled in later, as
\* are the code of the upstream error that ended it (err) and the console lines
\* written on its behalf (logs).
NewRequest(kind, entry, url, headers) ==
    [stage |-> "arrived", kind |-> kind, entry |-> entry, inUrl |-> url, url |-> url,
     headers |-> headers, client |-> NoProxy, out |-> NoOut, res |-> NoRes,
     err |-> NoCode, logs |-> <<>>]

Add(bag, q) == bag (+) SetToBag({q})
Replace(bag, q, q2) == (bag (-) SetToBag({q})) (+) SetToBag({q2})
Remove(bag, q) == bag (-) SetToBag({q})
InFlight == BagToSet(reqs)

\* Faulty variants of routeRequest: a longer prefix, and the prefix test without
\* its trailing slash.
routeRequestLongPrefix(url, app, api) ==
    [proxy |-> IF startsWith(url, <<"/", "a", "p", "i", "/", "v", "1", "/">>) THEN api ELSE app,
     res |-> [NoRes EXCEPT !.headers = setHeader(@, "Cache-Control", NoCache)]]

routeRequestNoSlash(url, app, api) ==
    [proxy |-> IF startsWith(url, <<"/", "a", "p", "i">>) THEN api ELSE app,
     res |-> [NoRes EXCEPT !.headers = setHeader(@, "Cache-Control", NoCache)]]

\* routeRequest(req, res): the Cache-Control header, then the client by prefix
routeRequest(url, app, api) ==
    [proxy |-> IF startsWith(url, ApiPrefix) THEN api ELSE app,
     res |-> [NoRes EXCEPT !.headers = setHeader(@, "Cache-Control", NoCache)]]

\* A faulty upgrade handler: every upgrade relayed to the app client.
upgradeAlwaysApp(url, app, api) == [proxy |-> app, res |-> NoRes]

\* server.on("upgrade"): the same prefix test, on a socket (no response headers)
upgrade(url, app, api) ==
    [proxy |-> IF startsWith(url, ApiPrefix) THEN api ELSE app, res |-> NoRes]

\* http-proxy builds the outgoing request: the inbound headers, the inbound url, and
\* with changeOrigin the Host of the target.
setupOutgoing(client, url, headers) ==
    [url |-> url,
     headers |-> IF client.changeOrigin
                 THEN setHeader(headers, "host", hostOf(client.target))
                 ELSE headers,
     target |-> client.target]

\* Faulty variants of the API client's proxyReq handler: Host copied like any other
\* header; the environment header set whatever apiLocal is; the environment
\* header set before the copy.
apiOnProxyReqCopiesHost(cfg, outHeaders, reqHeaders) ==
    LET copied == copyHeaders(outHeaders, reqHeaders, DOMAIN reqHeaders)
    IN  IF ~Truthy(cfg.apiLocal) THEN setHeader(copied, "x-app-environment", "local")
        ELSE copied

apiOnProxyReqAlwaysEnv(cfg, outHeaders, reqHeaders) ==
    LET copied == copyHeaders(outHeaders, reqHeaders,
                              {k \in DOMAIN reqHeaders : lower(k) # "host"})
    IN  setHeader(copied, "x-app-environment", "local")

apiOnProxyReqEnvFirst(cfg, outHeaders, reqHeaders) ==
    LET first == IF ~Truthy(cfg.apiLocal)
                 THEN setHeader(outHeaders, "x-app-environment", "local")
                 ELSE outHeaders
    IN  copyHeaders(first, reqHeaders, {k \in DOMAIN reqHeaders : lower(k) # "host"})

\* Another faulty variant: the handler takes the Cookie header off the request.
apiOnProxyReqDropsCookie(cfg, outHeaders, reqHeaders) ==
    LET copied == copyHeaders(outHeaders, reqHeaders,
                              {k \in DOMAIN reqHeaders : lower(k) # "host"})
        kept == [k \in DOMAIN copied \ {"cookie"} |-> copied[k]]
    IN  IF ~Truthy(cfg.apiLocal) THEN setHeader(kept, "x-app-environment", "local")
        ELSE kept

\* proxy.on("proxyReq") of setupAPIProxyHandlers: the headers of the outgoing request
apiOnProxyReq(cfg, outHeaders, reqHeaders) ==
    LET copied == copyHeaders(outHeaders, reqHeaders,
                              {k \in DOMAIN reqHeaders : lower(k) # "host"})
    IN  IF ~Truthy(cfg.apiLocal) THEN setHeader(copied, "x-app-environment", "local")
        ELSE copied

\* proxy.on("proxyRes") of setupAPIProxyHandlers: the headers of the response
apiOnProxyRes(resHeaders, upHeaders) ==
    copyHeaders(resHeaders, upHeaders, DOMAIN upHeaders)

\* A faulty relay: of the occurrences of Set-Cookie only the first is set.
writeHeadersFirstCookie(resHeaders, upHeaders) ==
    LET copied == copyHeaders(resHeaders, upHeaders, DOMAIN upHeaders)
    IN  [k \in DOMAIN copied |->
            IF k = "set-cookie" THEN <<Head(copied[k])>> ELSE copied[k]]

\* http-proxy's own relay of a response: every upstream header is set on the
\* response, then the status line is written.
writeHeaders(resHeaders, upHeaders) ==
    copyHeaders(resHeaders, upHeaders, DOMAIN upHeaders)

\* The console lines of the API client's proxyReq and proxyRes handlers: one
\* console.log each when showLogs is set. A console line is <<level, text>>.
apiProxyReqLog(cfg) ==
    IF Truthy(cfg.showLogs) THEN << <<"log", "[PROXY] METHOD url -> target">> >> ELSE <<>>
apiProxyResLog(cfg) ==
    IF Truthy(cfg.showLogs) THEN << <<"log", "[PROXY] Response: status METHOD url">> >> ELSE <<>>

----------------------------------------------------------------------------
(* Upstream errors: the 'error' handlers of the two clients *)

\* The error codes an upstream failure carries.
ErrorCodes == {"ECONNREFUSED", "ECONNRESET"}

\* res.writeHead(status, {"Content-Type": contentType}); res.end(body)
writeHead(res, status, contentType) ==
    [res EXCEPT !.statusCode = status,
                !.headers = setHeader(@, "Content-Type", contentType),
                !.headersSent = TRUE,
                !.writeHeads = @ + 1]
end(res, body) == [res EXCEPT !.body = body, !.ended = TRUE]
destroy(res) == [res EXCEPT !.destroyed = TRUE]

\* What a handler did: whether it threw and what, the caller's response or socket
\* as it left it, and the console lines it wrote.
Handled(res, logs) == [threw |-> FALSE, error |-> NoError, res |-> res, logs |-> logs]
Threw(error, res, logs) == [threw |-> TRUE, error |-> error, res |-> res, logs |-> logs]

NotAFunction == <<"TypeError: res.writeHead is not a function">>

\* A faulty variant of the API client's 'error' handler: the app client's status.
apiOnErrorStatus500(res, isSocket) ==
    LET logs == << <<"error", "[PROXY] API proxy error:">> >>
    IN  IF ~res.headersSent
        THEN IF isSocket THEN Threw(NotAFunction, res, logs)
             ELSE Handled(end(writeHead(res, 500, "text/plain"), "API proxy error"), logs)
        ELSE Handled(res, logs)

\* Another faulty variant: the status line written without the headersSent test.
apiOnErrorNoGuard(res, isSocket) ==
    LET logs == << <<"error", "[PROXY] API proxy error:">> >>
    IN  IF isSocket THEN Threw(NotAFunction, res, logs)
        ELSE Handled(end(writeHead(res, 502, "text/plain"), "API proxy error"), logs)

\* proxy.on("error") of setupAPIProxyHandlers. Its third argument is the response
\* of an HTTP request or the socket of an upgrade; a socket has no headersSent
\* (undefined, so `!res.headersSent` holds) and no writeHead, so the call throws.
apiOnError(res, isSocket) ==
    LET logs == << <<"error", "[PROXY] API proxy error:">> >>
    IN  IF ~res.headersSent
        THEN IF isSocket THEN Threw(NotAFunction, res, logs)
             ELSE Handled(end(writeHead(res, 502, "text/plain"), "API proxy error"), logs)
        ELSE Handled(res, logs)

\* proxy.on("error") of setupAppProxyHandlers: the error line first, then the
\* connection-refused case (a warning and destroy(), which a response and a socket
\* both have), then the status line for a response and destroy() for a socket.
appOnError(code, res, isSocket) ==
    LET logs == << <<"error", "[PROXY] App proxy error:">> >>
    IN  IF code = "ECONNREFUSED"
        THEN Handled(destroy(res),
                     logs \o << <<"warn", "[PROXY] App not ready yet, ignoring...">> >>)
        ELSE IF ~res.headersSent
        THEN IF ~isSocket
             THEN Handled(end(writeHead(res, 500, "text/plain"), "App proxy error"), logs)
             ELSE Handled(destroy(res), logs)
        ELSE Handled(res, logs)

\* What http-proxy does with an error of a client: it calls the 'error' handler
\* registered on the client, and throws the error itself when there is none.
onError(client, code, res, isSocket) ==
    CASE client.handlers = "api" -> apiOnError(res, isSocket)
      [] client.handlers = "app" -> appOnError(code, res, isSocket)
      [] OTHER -> Threw(<<code>>, res, <<>>)

----------------------------------------------------------------------------
(* The state after nothing has happened: a configuration to construct from, and
   the certificate files that exist. *)

Init ==
    /\ phase = "new"
    /\ input \in Inputs
    /\ config = EmptyConfig
    /\ appProxy = Null
    /\ apiProxy = Null
    /\ server = Null
    /\ proxies = <<>>
    /\ nServers = 0
    /\ bound = {}
    /\ pendingErr = {}
    /\ crashed = FALSE
    /\ fatal = NoFatal
    /\ portBusy \in BOOLEAN
    /\ env = NoEnv
    /\ cli = CliOff
    /\ files \in SUBSET KnownFiles
    /\ reads = {}
    /\ call = "none"
    /\ thrown = NoError
    /\ reqs = EmptyBag

----------------------------------------------------------------------------
(* new DevProxy(input) *)

Construct ==
    /\ phase = "new"
    /\ LET v == validateConfig(input)
       IN  /\ phase' = IF v.threw THEN "ctorFailed" ELSE "constructed"
           /\ config' = v.value
           /\ thrown' = v.error
    /\ call' = "constructor"
    /\ appProxy' = Null
    /\ apiProxy' = Null
    /\ server' = Null
    /\ UNCHANGED <<input, proxies, nServers, bound, pendingErr, crashed, fatal, portBusy,
                   env, cli, files, reads, reqs>>

\* A faulty start(): the clients are made before the certificates are loaded, so
\* a missing certificate file leaves them set.
StartClientsFirst ==
    /\ phase = "constructed"
    /\ ~crashed
    /\ nServers < MaxStarts
    /\ call' = "start"
    /\ LET ssl == loadSSLCertificates(config, files)
           sid == nServers + 1
       IN  /\ reads' = reads \cup ssl.read
           /\ thrown' = ssl.error
           /\ appProxy' = Len(proxies) + 1
           /\ apiProxy' = Len(proxies) + 2
           /\ proxies' = proxies \o
                 <<setupAppProxyHandlers(createAppProxy(config)),
                   setupAPIProxyHandlers(createAPIProxy(config))>>
           /\ IF ssl.threw
              THEN UNCHANGED <<server, nServers, bound, pendingErr>>
              ELSE /\ server' = sid
                   /\ nServers' = sid
                   /\ IF bound = {} /\ ~portBusy
                      THEN bound' = {sid} /\ UNCHANGED pendingErr
                      ELSE pendingErr' = pendingErr \cup {sid} /\ UNCHANGED bound
    /\ UNCHANGED <<phase, input, config, crashed, fatal, portBusy, env, cli, files, reqs>>

(* start(): the certificates, the two clients and their handlers, the server and
   its listen(). A throw of loadSSLCertificates leaves start() at once. listen()
   binds the port or, when a server of this process or another process holds it,
   queues the server's 'error' event (EADDRINUSE) and returns. *)
Start ==
    /\ phase = "constructed"
    /\ ~crashed
    /\ nServers < MaxStarts
    /\ call' = "start"
    /\ LET ssl == loadSSLCertificates(config, files)
           sid == nServers + 1
           app == Len(proxies) + 1
           api == Len(proxies) + 2
       IN  /\ reads' = reads \cup ssl.read
           /\ thrown' = ssl.error
           /\ IF ssl.threw
              THEN UNCHANGED <<appProxy, apiProxy, server, proxies, nServers, bound,
                               pendingErr>>
              ELSE /\ appProxy' = app
                   /\ apiProxy' = api
                   /\ proxies' = proxies \o
                         <<setupAppProxyHandlers(createAppProxy(config)),
                           setupAPIProxyHandlers(createAPIProxy(config))>>
                   /\ server' = sid
                   /\ nServers' = sid
                   /\ IF bound = {} /\ ~portBusy
                      THEN bound' = {sid} /\ UNCHANGED pendingErr
                      ELSE pendingErr' = pendingErr \cup {sid} /\ UNCHANGED bound
    /\ UNCHANGED <<phase, input, config, crashed, fatal, portBusy, env, cli, files, reqs>>

\* A faulty stop(): server.close() without the `if (this.server)` guard.
StopNoGuard ==
    /\ phase = "constructed"
    /\ ~crashed
    /\ call' = "stop"
    /\ IF server = Null
       THEN thrown' = <<"TypeError: Cannot read properties of null (reading 'close')">>
       ELSE thrown' = NoError
    /\ bound' = bound \ {server}
    /\ UNCHANGED <<phase, input, config, appProxy, apiProxy, server, proxies, nServers,
                   pendingErr, crashed, fatal, portBusy, env, cli, files, reads, reqs>>

(* stop(): server.close() when there is a server. close() releases the port when
   the server holds it and does nothing, without throwing, when it does not. *)
Stop ==
    /\ phase = "constructed"
    /\ ~crashed
    /\ call' = "stop"
    /\ thrown' = NoError
    /\ IF server # Null THEN bound' = bound \ {server} ELSE UNCHANGED bound
    /\ UNCHANGED <<phase, input, config, appProxy, apiProxy, server, proxies, nServers,
                   pendingErr, crashed, fatal, portBusy, env, cli, files, reads, reqs>>

(* The 'error' event of a server whose listen() failed: no listener is registered
   for it, so it is thrown as an uncaught exception and ends the process, and with
   it every listener and every request in flight. *)
ListenError(s) ==
    /\ ~crashed
    /\ s \in pendingErr
    /\ pendingErr' = pendingErr \ {s}
    /\ crashed' = TRUE
    /\ fatal' = [source |-> "listen", error |-> <<"listen EADDRINUSE">>]
    /\ bound' = {}
    /\ reqs' = EmptyBag
    /\ UNCHANGED <<phase, input, config, appProxy, apiProxy, server, proxies, nServers,
                   portBusy, env, cli, files, reads, call, thrown>>

----------------------------------------------------------------------------
(* Requests. A request or an upgrade arrives while a server holds the port. *)

\* The process handles an event of a connection: it is alive, and no 'error' event
\* of a failed listen() is queued (that one is emitted on the next tick, before
\* any event of a connection is handled).
Running == ~crashed /\ pendingErr = {}

Accepting == Running /\ bound # {} /\ BagCardinality(reqs) < MaxReq

lifecycle == <<phase, input, config, appProxy, apiProxy, server, proxies, nServers,
               bound, pendingErr, crashed, fatal, portBusy, env, cli, files, reads, call, thrown>>

\* the server's request callback: this.routeRequest(req, res)
RouteRequest(url, headers) ==
    /\ Accepting
    /\ LET d == routeRequest(url, appProxy, apiProxy)
       IN  reqs' = Add(reqs,
               [NewRequest("http", "routeRequest", url, headers)
                    EXCEPT !.stage = "routed", !.client = proxies[d.proxy],
                           !.res = d.res])
    /\ UNCHANGED lifecycle

\* the server's upgrade callback
Upgrade(url, headers) ==
    /\ Accepting
    /\ LET d == upgrade(url, appProxy, apiProxy)
       IN  reqs' = Add(reqs,
               [NewRequest("ws", "upgrade", url, headers)
                    EXCEPT !.stage = "routed", !.client = proxies[d.proxy],
                           !.res = d.res])
    /\ UNCHANGED lifecycle

\* A faulty handleSPAFallback: the forward without `req.url = "/"`.
HandleSPAFallbackKeepsUrl(url, headers) ==
    /\ Accepting
    /\ reqs' = Add(reqs,
           [NewRequest("http", "handleSPAFallback", url, headers)
                EXCEPT !.stage = "routed", !.client = fallbackProxy(config)])
    /\ UNCHANGED lifecycle

\* Another faulty handleSPAFallback: the client made for the request is kept in
\* this.appProxy.
HandleSPAFallbackStoresClient(url, headers) ==
    /\ Accepting
    /\ reqs' = Add(reqs,
           [NewRequest("http", "handleSPAFallback", url, headers)
                EXCEPT !.stage = "routed", !.url = <<"/">>,
                       !.client = fallbackProxy(config)])
    /\ proxies' = Append(proxies, fallbackProxy(config))
    /\ appProxy' = Len(proxies) + 1
    /\ UNCHANGED <<phase, input, config, apiProxy, server, nServers, bound, pendingErr,
                   crashed, fatal, portBusy, env, cli, files, reads, call, thrown>>

\* handleSPAFallback(req, res), called by code around the proxy on a request of
\* the server: a client of its own, req.url = "/", and the forward.
HandleSPAFallback(url, headers) ==
    /\ Accepting
    /\ reqs' = Add(reqs,
           [NewRequest("http", "handleSPAFallback", url, headers)
                EXCEPT !.stage = "routed", !.url = <<"/">>,
                       !.client = fallbackProxy(config)])
    /\ UNCHANGED lifecycle

\* The client has a socket for the outgoing request: http-proxy has built it and
\* emits 'proxyReq' for an HTTP request ('proxyReqWs', which has no handler, for
\* an upgrade).
ProxyReq(q) ==
    /\ Running
    /\ BagIn(q, reqs)
    /\ q.stage = "routed"
    /\ LET o == setupOutgoing(q.client, q.url, q.headers)
       IN  reqs' = Replace(reqs, q,
               [q EXCEPT !.stage = "forwarded",
                         !.out = IF q.kind = "http" /\ q.client.handlers = "api"
                                 THEN [o EXCEPT !.headers =
                                           apiOnProxyReq(config, @, q.headers)]
                                 ELSE o,
                         !.logs = IF q.kind = "http" /\ q.client.handlers = "api"
                                  THEN @ \o apiProxyReqLog(config)
                                  ELSE @])
    /\ UNCHANGED lifecycle

\* The upstream answers an HTTP request: 'proxyRes' is emitted, then http-proxy
\* relays the headers and the status line.
UpstreamResponse(q, up) ==
    /\ Running
    /\ BagIn(q, reqs)
    /\ q.stage = "forwarded"
    /\ q.kind = "http"
    /\ LET handled == IF q.client.handlers = "api"
                      THEN apiOnProxyRes(q.res.headers, up)
                      ELSE q.res.headers
       IN  reqs' = Replace(reqs, q,
               [q EXCEPT !.stage = "responded",
                         !.res = [q.res EXCEPT !.headers = writeHeaders(handled, up),
                                               !.headersSent = TRUE,
                                               !.statusCode = 200,
                                               !.writeHeads = @ + 1],
                         !.logs = IF q.client.handlers = "api"
                                  THEN @ \o apiProxyResLog(config)
                                  ELSE @])
    /\ UNCHANGED lifecycle

(* An error of the exchange with the upstream (the outgoing request fails, or the
   inbound request does while the response is relayed): http-proxy emits 'error'
   on the client, once for an exchange, with the response of an HTTP request or
   the socket of an upgrade, and after the handler of an upgrade returns it ends
   the socket. A refused connection has had no response. An exception thrown by
   the handler, or by http-proxy for want of one, is uncaught and ends the
   process. *)
UpstreamError(q, code) ==
    /\ Running
    /\ BagIn(q, reqs)
    /\ q.stage \in {"forwarded", "responded"}
    /\ code = "ECONNREFUSED" => q.stage = "forwarded"
    /\ LET h == onError(q.client, code, q.res, q.kind = "ws")
       IN  IF h.threw
           THEN /\ crashed' = TRUE
                /\ fatal' = [source |-> "error handler", error |-> h.error]
                /\ bound' = {}
                /\ reqs' = EmptyBag
           ELSE /\ reqs' = Replace(reqs, q,
                        [q EXCEPT !.stage = "failed",
                                  !.err = code,
                                  !.res = IF q.kind = "ws" /\ ~h.res.destroyed
                                          THEN [h.res EXCEPT !.ended = TRUE]
                                          ELSE h.res,
                                  !.logs = @ \o h.logs])
                /\ UNCHANGED <<crashed, fatal, bound>>
    /\ UNCHANGED <<phase, input, config, appProxy, apiProxy, server, proxies, nServers,
                   pendingErr, portBusy, env, cli, files, reads, call, thrown>>

\* The exchange is over: the response has ended, the relayed socket has closed, or
\* the caller's connection was ended or destroyed after an error.
Finish(q) ==
    /\ Running
    /\ BagIn(q, reqs)
    /\ \/ q.stage = "responded"
       \/ q.stage = "forwarded" /\ q.kind = "ws"
       \/ q.stage = "failed" /\ (q.res.ended \/ q.res.destroyed)
    /\ reqs' = Remove(reqs, q)
    /\ UNCHANGED lifecycle

Next ==
    \/ Construct
    \/ Start
    \/ Stop
    \/ \E s \in 1..MaxStarts : ListenError(s)
    \/ \E q \in Requests : RouteRequest(q.url, q.headers)
    \/ \E q \in Upgrades : Upgrade(q.url, q.headers)
    \/ \E q \in Fallbacks : HandleSPAFallback(q.url, q.headers)
    \/ \E q \in InFlight : ProxyReq(q)
    \/ \E q \in InFlight, up \in UpHeaders : UpstreamResponse(q, up)
    \/ \E q \in InFlight : Finish(q)

Spec == Init /\ [][Next]_vars

----------------------------------------------------------------------------
(* The proxy with upstream errors: the same operations on a smaller sample of
   requests and answers, from a configuration that constructs and starts, and
   the 'error' event of an exchange. *)

ErrRequests ==
    {[url |-> <<"/", "a", "p", "i", "/", "u">>, headers |-> HPlain],
     [url |-> <<"/", "d", "a", "s", "h">>, headers |-> HEnv]}

ErrUpHeaders == {[k \in {"content-type"} |-> "text/html"]}

InitErr ==
    /\ Init
    /\ ~portBusy
    /\ files = KnownFiles
    /\ validateConfig(input).threw = FALSE

NextErr ==
    \/ Construct
    \/ Start
    \/ Stop
    \/ \E s \in 1..MaxStarts : ListenError(s)
    \/ \E q \in ErrRequests : RouteRequest(q.url, q.headers)
    \/ \E q \in Upgrades : Upgrade(q.url, q.headers)
    \/ \E q \in Fallbacks : HandleSPAFallback(q.url, q.headers)
    \/ \E q \in InFlight : ProxyReq(q)
    \/ \E q \in InFlight, up \in ErrUpHeaders : UpstreamResponse(q, up)
    \/ \E q \in InFlight, code \in ErrorCodes : UpstreamError(q, code)
    \/ \E q \in InFlight : Finish(q)

SpecErr == InitErr /\ [][NextErr]_vars

(* The same with the progress the event loop guarantees: a queued 'error' event
   of a server is emitted, a client that holds a request gets to build the
   outgoing request, and an exchange that is over is closed. Whether and when an
   upstream answers or fails is not the proxy's to decide: no fairness on it. *)
FairErr ==
    /\ WF_vars(\E s \in 1..MaxStarts : ListenError(s))
    /\ WF_vars(\E q \in InFlight : ProxyReq(q))
    /\ WF_vars(\E q \in InFlight : Finish(q))

SpecErrLive == InitErr /\ [][NextErr]_vars /\ FairErr

----------------------------------------------------------------------------
(* The command-line program: try { loadConfig(); new DevProxy(config); start() }
   catch (error) { console.error("[PROXY] Failed to start:", ...); process.exit(1) }.
   The try block runs to its end or to a throw before any event is handled. *)

InitCli ==
    /\ phase = "new"
    /\ input = EmptyConfig
    /\ config = EmptyConfig
    /\ appProxy = Null
    /\ apiProxy = Null
    /\ server = Null
    /\ proxies = <<>>
    /\ nServers = 0
    /\ bound = {}
    /\ pendingErr = {}
    /\ crashed = FALSE
    /\ fatal = NoFatal
    /\ portBusy \in BOOLEAN
    /\ env \in Envs
    /\ cli = CliEntry
    /\ files \in SUBSET KnownFiles
    /\ reads = {}
    /\ call = "none"
    /\ thrown = NoError
    /\ reqs = EmptyBag

\* const config = loadConfig()
CliLoadConfig ==
    /\ cli.pc = "entry"
    /\ LET c == loadConfig(env)
       IN  /\ input' = c.value
           /\ thrown' = c.error
    /\ call' = "loadConfig"
    /\ cli' = [cli EXCEPT !.pc = "try"]
    /\ UNCHANGED <<phase, config, appProxy, apiProxy, server, proxies, nServers, bound,
                   pendingErr, crashed, fatal, portBusy, env, files, reads, reqs>>

\* const proxy = new DevProxy(config)
CliConstruct == cli.pc = "try" /\ call = "loadConfig" /\ thrown = NoError /\ Construct

\* proxy.start()
CliStart == cli.pc = "try" /\ call = "constructor" /\ thrown = NoError /\ Start

\* the catch block
CliCatch ==
    /\ cli.pc = "try"
    /\ thrown # NoError
    /\ cli' = [pc |-> "exited", exitCode |-> 1,
               stderr |-> <<"[PROXY] Failed to start:">> \o thrown]
    /\ UNCHANGED <<phase, input, config, appProxy, apiProxy, server, proxies, nServers,
                   bound, pendingErr, crashed, fatal, portBusy, env, files, reads, call,
                   thrown, reqs>>

NextCli ==
    \/ CliLoadConfig
    \/ CliConstruct
    \/ CliStart
    \/ CliCatch
    \/ \E s \in 1..MaxStarts : ListenError(s)

SpecCli == InitCli /\ [][NextCli]_vars

----------------------------------------------------------------------------
(* The constructor on port values of every kind: a valid port, zero, a negative
   number, a non-integer number, a numeric and a non-numeric string. *)

PortValues(valid) ==
    {Undef, Num(valid), Num(0), Num(-1), Frac(1), Str("8080"), Str("abc")}

PortInputs ==
    [appPort : PortValues(5173),
     proxyPort : PortValues(8443),
     devDomain : {Str("dev.test")},
     apiLocal : {Undef},
     apiBaseUrl : {Str("https://api.test")},
     certsPath : {Str("/certs")},
     showLogs : {Undef}]

InitPorts ==
    /\ phase = "new"
    /\ input \in PortInputs
    /\ config = EmptyConfig
    /\ appProxy = Null
    /\ apiProxy = Null
    /\ server = Null
    /\ proxies = <<>>
    /\ nServers = 0
    /\ bound = {}
    /\ pendingErr = {}
    /\ crashed = FALSE
    /\ fatal = NoFatal
    /\ portBusy \in BOOLEAN
    /\ env = NoEnv
    /\ cli = CliOff
    /\ files \in SUBSET KnownFiles
    /\ reads = {}
    /\ call = "none"
    /\ thrown = NoError
    /\ reqs = EmptyBag

NextPorts == Construct

SpecPorts == InitPorts /\ [][NextPorts]_vars

----------------------------------------------------------------------------
(* The claims *)

\* What the claims call a path that starts with the literal prefix '/api/'.
IsApiPath(u) ==
    /\ Len(u) >= 5
    /\ u[1] = "/" /\ u[2] = "a" /\ u[3] = "p" /\ u[4] = "i" /\ u[5] = "/"

\* The request has left the proxy for its upstream.
Forwarded(q) == q.stage \in {"forwarded", "responded"}

IsApiClient(c) == c.target.base = config.apiBaseUrl.s /\ c.handlers = "api"
IsAppClient(c) ==
    /\ c.target = [base |-> "http://localhost:", port |-> config.appPort.n]
    /\ c.handlers = "app"

\* C1: every HTTP request whose path starts with '/api/' is dispatched by
\* routeRequest to the API client, not to the app client, and the path handed to
\* that client, and sent to the API target, is the inbound path unchanged.
C1_ApiPathsGoToApi ==
    \A q \in InFlight :
        (q.entry = "routeRequest" /\ IsApiPath(q.inUrl)) =>
            /\ IsApiClient(q.client)
            /\ ~IsAppClient(q.client)
            /\ q.url = q.inUrl
            /\ Forwarded(q) => (q.out.url = q.inUrl /\ q.out.target.base = config.apiBaseUrl.s)

C1_Witness ==
    \E q \in InFlight :
        q.entry = "routeRequest" /\ IsApiPath(q.inUrl) /\ q.stage = "forwarded"

\* C2: every HTTP request whose path does not start with '/api/' ('/api', '/apix',
\* '/API/x' and '/' among them) is dispatched by routeRequest to the app client,
\* not to the API client, with the inbound path unchanged.
C2_OtherPathsGoToApp ==
    \A q \in InFlight :
        (q.entry = "routeRequest" /\ ~IsApiPath(q.inUrl)) =>
            /\ IsAppClient(q.client)
            /\ ~IsApiClient(q.client)
            /\ q.url = q.inUrl
            /\ Forwarded(q) =>
                  /\ q.out.url = q.inUrl
                  /\ q.out.target = [base |-> "http://localhost:", port |-> config.appPort.n]

C2_Witness ==
    /\ \E q \in InFlight :
          q.entry = "routeRequest" /\ q.inUrl = <<"/", "a", "p", "i">> /\ q.stage = "forwarded"
    /\ \E q \in InFlight :
          q.entry = "routeRequest" /\ q.inUrl = <<"/", "A", "P", "I", "/", "x">>

\* C3: every response routeRequest proxied and delivered to the caller carries
\* Cache-Control 'no-cache, no-store, must-revalidate', whatever headers the
\* upstream response carries.
C3_CacheControlOnEveryResponse ==
    \A q \in InFlight :
        (q.entry = "routeRequest" /\ q.stage = "responded") =>
            /\ "cache-control" \in DOMAIN q.res.headers
            /\ q.res.headers["cache-control"] = "no-cache, no-store, must-revalidate"

\* C4: the request forwarded to the API target never carries the inbound Host:
\* the API client's request transform does not copy it, and the Host it carries
\* is the target's.
C4_InboundHostNotForwarded ==
    \A q \in InFlight :
        (Forwarded(q) /\ q.out.target.base = config.apiBaseUrl.s) =>
            /\ "host" \in DOMAIN q.out.headers
            /\ q.out.headers["host"] # q.headers["host"]
            /\ q.out.headers["host"] = "api.test"

C4_Witness ==
    \E q \in InFlight :
        /\ q.kind = "http" /\ q.stage = "forwarded"
        /\ q.out.target.base = config.apiBaseUrl.s
        /\ q.headers["host"] = "dev.test:8443"

\* C5: when apiLocal is false, every HTTP request forwarded to the API target
\* carries x-app-environment with exactly the value 'local', also when the
\* inbound request carried the header with another value.
C5_EnvHeaderSetWhenRemote ==
    \A q \in InFlight :
        (/\ ~config.apiLocal.b
         /\ q.kind = "http"
         /\ Forwarded(q)
         /\ q.out.target.base = config.apiBaseUrl.s) =>
            /\ "x-app-environment" \in DOMAIN q.out.headers
            /\ q.out.headers["x-app-environment"] = "local"

C5_Witness ==
    \E q \in InFlight :
        /\ ~config.apiLocal.b
        /\ q.kind = "http" /\ q.stage = "forwarded"
        /\ q.out.target.base = config.apiBaseUrl.s
        /\ "x-app-environment" \in DOMAIN q.headers
        /\ q.headers["x-app-environment"] = "production"

\* C6, as claimed: when apiLocal is true, no HTTP request forwarded to the API
\* target carries 'x-app-environment: local', whatever the inbound request carried.
C6_NoEnvHeaderWhenLocal ==
    \A q \in InFlight :
        (/\ config.apiLocal.b
         /\ q.kind = "http"
         /\ Forwarded(q)
         /\ q.out.target.base = config.apiBaseUrl.s) =>
            ~(/\ "x-app-environment" \in DOMAIN q.out.headers
              /\ q.out.headers["x-app-environment"] = "local")

\* C6, amended: when apiLocal is true, the proxy neither adds nor changes
\* x-app-environment: an HTTP request forwarded to the API target carries the
\* header exactly when the inbound request carried it, with the inbound value.
C6_EnvHeaderUntouchedWhenLocal ==
    \A q \in InFlight :
        (/\ config.apiLocal.b
         /\ q.kind = "http"
         /\ Forwarded(q)
         /\ q.out.target.base = config.apiBaseUrl.s) =>
            /\ ("x-app-environment" \in DOMAIN q.out.headers)
                   <=> ("x-app-environment" \in DOMAIN q.headers)
            /\ "x-app-environment" \in DOMAIN q.headers =>
                   q.out.headers["x-app-environment"] = q.headers["x-app-environment"]

C6_Witness ==
    /\ config.apiLocal.b
    /\ \E q \in InFlight :
          /\ q.kind = "http" /\ q.stage = "forwarded"
          /\ q.out.target.base = config.apiBaseUrl.s
          /\ "x-app-environment" \notin DOMAIN q.headers
    /\ \E q \in InFlight :
          /\ q.kind = "http" /\ q.stage = "forwarded"
          /\ q.out.target.base = config.apiBaseUrl.s
          /\ "x-app-environment" \in DOMAIN q.headers
          /\ q.headers["x-app-environment"] = "local"

\* C7: start() on a started server does not throw and opens no second listener:
\* after any sequence of start() calls at most one listener is bound, this.server
\* refers to it, and nothing has thrown.
C7_StartIsIdempotent ==
    nServers >= 1 =>
        /\ Cardinality(bound) <= 1
        /\ bound # {} => server \in bound
        /\ pendingErr = {}
        /\ ~crashed

\* C8: stop() on a server that is already stopped (never started, or started and
\* stopped) does not throw, changes no field of the object and no listener, and
\* leaves every request in flight alone.
C8_StopWhenStoppedIsNoOp ==
    [][(Stop /\ bound = {}) =>
          /\ thrown' = NoError
          /\ UNCHANGED <<phase, input, config, appProxy, apiProxy, server, proxies,
                         nServers, bound, pendingErr, crashed, fatal, portBusy, env, cli, files, reads, reqs>>]_vars

C8_Witness ==
    /\ call = "stop"
    /\ thrown = NoError
    /\ server = Null
    /\ bound = {}

\* What the claims call a missing field: undefined, empty or zero.
IsMissing(v) == v = Undef \/ v = Str("") \/ v = Num(0)

FirstMissing(cfg) ==
    IF IsMissing(cfg.appPort) THEN "appPort"
    ELSE IF IsMissing(cfg.proxyPort) THEN "proxyPort"
    ELSE IF IsMissing(cfg.devDomain) THEN "devDomain"
    ELSE IF IsMissing(cfg.apiBaseUrl) THEN "apiBaseUrl"
    ELSE IF IsMissing(cfg.certsPath) THEN "certsPath"
    ELSE "none"

\* C9: constructing from a configuration in which one of appPort, proxyPort,
\* devDomain, apiBaseUrl, certsPath is missing fails with '<field> is required'
\* for the first missing field in that order, and no client, server or listener
\* exists then.
C9_MissingFieldFailsConstruction ==
    (phase # "new" /\ FirstMissing(input) # "none") =>
        /\ phase = "ctorFailed"
        /\ thrown = <<FirstMissing(input), " is required">>
        /\ appProxy = Null /\ apiProxy = Null /\ server = Null
        /\ proxies = <<>> /\ nServers = 0 /\ bound = {}

C9_Witness ==
    /\ phase = "ctorFailed"
    /\ input.appPort = Num(5173)
    /\ input.proxyPort = Undef
    /\ input.apiBaseUrl = Undef
    /\ thrown = <<"proxyPort", " is required">>

\* C10: with the key file absent start() fails naming {certsPath}/{devDomain}-key.pem;
\* with the key present and the certificate absent it fails naming
\* {certsPath}/{devDomain}.pem; the key is checked first, and no file is read
\* and no client or server is made when either file is absent.
C10_MissingCertificateNamed ==
    LET key == <<config.certsPath.s, "/", config.devDomain.s, "-key.pem">>
        cert == <<config.certsPath.s, "/", config.devDomain.s, ".pem">>
    IN  (call = "start" /\ (key \notin files \/ cert \notin files)) =>
            /\ thrown = IF key \notin files
                        THEN <<"SSL key not found at: ">> \o key
                        ELSE <<"SSL certificate not found at: ">> \o cert
            /\ reads = {}
            /\ appProxy = Null /\ apiProxy = Null /\ server = Null /\ bound = {}

C10_Witness ==
    /\ call = "start"
    /\ files = {}
    /\ thrown = <<"SSL key not found at: ", "/certs", "/", "dev.test", "-key.pem">>

\* The levels of the console lines written for a request.
Levels(q) == {q.logs[i][1] : i \in DOMAIN q.logs}

\* C11: when a request routed to the app target fails with ECONNREFUSED, no
\* status line is written to the caller (so no 502), the connection is destroyed,
\* a warning is logged, and no error-level line is logged for the failure.
C11_RefusedAppRequestOnlyWarns ==
    \A q \in InFlight :
        (q.stage = "failed" /\ IsAppClient(q.client) /\ q.err = "ECONNREFUSED") =>
            /\ q.res.writeHeads = 0
            /\ q.res.statusCode # 502
            /\ q.res.destroyed
            /\ "warn" \in Levels(q)
            /\ "error" \notin Levels(q)

C13_AppErrorAnswers502 ==
    [][\A q \in InFlight, code \in ErrorCodes \ {"ECONNREFUSED"} :
          (/\ UpstreamError(q, code)
           /\ q.kind = "http"
           /\ IsAppClient(q.client)
           /\ ~q.res.headersSent) =>
              /\ ~crashed'
              /\ \E r \in BagToSet(reqs') :
                    /\ reqs' = Replace(reqs, q, r)
                    /\ r.stage = "failed"
                    /\ r.res.statusCode = 502
                    /\ r.res.headers["content-type"] = "text/plain"
                    /\ r.res.ended]_vars

\* C14: when a WebSocket relay fails with an error, the 'error' handler of the
\* client that relayed it destroys the caller's socket and does nothing else to
\* it (no status line, no body, no exception), for the app client and for the
\* API client alike.
C14_RelayErrorDestroysSocket ==
    [][\A q \in InFlight, code \in ErrorCodes :
          (UpstreamError(q, code) /\ q.kind = "ws") =>
              /\ ~crashed'
              /\ fatal' = NoFatal
              /\ \E r \in BagToSet(reqs') :
                    /\ reqs' = Replace(reqs, q, r)
                    /\ r.res = [q.res EXCEPT !.destroyed = TRUE]]_vars

\* C15: no upstream error of a request or an upgrade, in any interleaving with
\* the other requests in flight, makes a handler throw or ends the process:
\* after it the server still listens and every other request in flight is as
\* it was.
C15_UpstreamErrorsContained ==
    [][\A q \in InFlight, code \in ErrorCodes :
          UpstreamError(q, code) =>
              /\ ~crashed'
              /\ fatal' = NoFatal
              /\ bound' = bound
              /\ \E r \in BagToSet(reqs') : reqs' = Replace(reqs, q, r)]_vars

\* C16: an upgrade request is classified by the rule of HTTP requests: a path
\* that starts with '/api/' goes to the API client's WebSocket relay and every
\* other path to the app client's; its path is never rewritten, and no upgrade
\* goes through the SPA fallback.
C16_UpgradesRoutedLikeRequests ==
    \A q \in InFlight :
        /\ q.kind = "ws" =>
              /\ q.entry = "upgrade"
              /\ q.client # fallbackProxy(config)
        /\ q.entry = "upgrade" =>
              /\ q.kind = "ws"
              /\ IF IsApiPath(q.inUrl)
                 THEN IsApiClient(q.client) /\ ~IsAppClient(q.client)
                 ELSE IsAppClient(q.client) /\ ~IsApiClient(q.client)
              /\ q.url = q.inUrl
              /\ Forwarded(q) =>
                    /\ q.out.url = q.inUrl
                    /\ q.out.target = q.client.target

C16_Witness ==
    /\ \E q \in InFlight :
          /\ q.entry = "upgrade" /\ q.stage = "forwarded"
          /\ q.inUrl = <<"/", "a", "p", "i", "/", "u">>
    /\ \E q \in InFlight :
          /\ q.entry = "upgrade" /\ q.stage = "forwarded"
          /\ q.inUrl = <<"/", "d", "a", "s", "h">>

\* What the README calls a path served by the app server as it is: '/', a path
\* under '/@vite/', or a path that contains a '.'.
IsAssetPath(u) ==
    \/ u = <<"/">>
    \/ Len(u) >= 7 /\ SubSeq(u, 1, 7) = <<"/", "@", "v", "i", "t", "e", "/">>
    \/ \E i \in DOMAIN u : u[i] = "."

\* C17: routing has three outcomes: a path that starts with '/api/' is forwarded
\* to the API; a path that is '/', starts with '/@vite/' or contains '.' is
\* forwarded to the app server unchanged; every other path is forwarded to the
\* app server with the path rewritten to '/' (the SPA fallback).
C17_ThreeRoutingOutcomes ==
    \A q \in InFlight :
        q.entry = "routeRequest" =>
            IF IsApiPath(q.inUrl)
            THEN q.client.target.base = config.apiBaseUrl.s /\ q.url = q.inUrl
            ELSE /\ q.client.target = [base |-> "http://localhost:", port |-> config.appPort.n]
                 /\ q.url = IF IsAssetPath(q.inUrl) THEN q.inUrl ELSE <<"/">>

\* C18: TLS verification is disabled only for the API client and only when
\* apiLocal is true: the API client verifies exactly when apiLocal is false, the
\* app client always verifies, and both are created with changeOrigin.
C18_TlsVerificationOffOnlyForLocalApi ==
    \A i \in DOMAIN proxies :
        /\ proxies[i].changeOrigin
        /\ proxies[i].handlers \in {"app", "api"}
        /\ proxies[i].handlers = "app" => proxies[i].secure
        /\ proxies[i].handlers = "api" => (proxies[i].secure <=> ~Truthy(config.apiLocal))

C18_Witness ==
    /\ appProxy # Null /\ apiProxy # Null
    /\ Truthy(config.apiLocal)
    /\ proxies[apiProxy].handlers = "api" /\ ~proxies[apiProxy].secure
    /\ proxies[appProxy].handlers = "app" /\ proxies[appProxy].secure

\* C19: a start that cannot bind the proxy port fails like one that finds no
\* certificate: start() throws to its caller, and the command-line program ends
\* through its catch block, with '[PROXY] Failed to start' and a non-zero exit
\* code, not by an uncaught exception.
C19_BindFailurePropagates ==
    (call = "start" /\ server # Null /\ server \notin bound) =>
        /\ thrown # NoError
        /\ ~crashed
        /\ fatal = NoFatal
        /\ cli.pc = "exited" =>
              (cli.exitCode # 0 /\ Head(cli.stderr) = "[PROXY] Failed to start:")

\* The variables README.md marks as required are set.
RequiredEnvSet(e) ==
    \A n \in {"PROXY_APP_PORT", "PROXY_PORT", "PROXY_DEV_DOMAIN", "PROXY_API_BASE_URL",
              "PROXY_CERTS_PATH"} : Lookup(e, n) # Undef

\* C20: with every required PROXY_* variable set and PROXY_API_LOCAL unset (the
\* certificates on disk and the port free), the command-line program does not
\* fail: nothing is thrown, it does not exit, and the proxy is constructed with
\* apiLocal = false.
C20_ApiLocalIsOptional ==
    (/\ RequiredEnvSet(env)
     /\ Lookup(env, "PROXY_API_LOCAL") = Undef
     /\ files = KnownFiles /\ ~portBusy
     /\ cli.pc # "entry") =>
        /\ thrown = NoError
        /\ cli.pc # "exited"
        /\ phase = "constructed" => config.apiLocal = Bool(FALSE)

\* C21: the command-line program builds the configuration from the PROXY_*
\* variables themselves: with both set, apiBaseUrl is the value of
\* PROXY_API_BASE_URL and apiLocal is true exactly when the value of
\* PROXY_API_LOCAL is the string 'true'.
C21_ConfigFromProxyVariables ==
    (/\ cli.pc \notin {"off", "entry"}
     /\ Lookup(env, "PROXY_API_LOCAL") # Undef
     /\ Lookup(env, "PROXY_API_BASE_URL") # Undef
     /\ call = "loadConfig") =>
        /\ thrown = NoError
        /\ input.apiBaseUrl = Lookup(env, "PROXY_API_BASE_URL")
        /\ input.apiLocal = Bool(Lookup(env, "PROXY_API_LOCAL") = Str("true"))

\* C22: the lifecycle only moves Stopped -> Starting -> Listening -> Stopped:
\* start() makes a server only when none listens (no step from Listening back to
\* Starting), after stop() no listener is left, and a request or an upgrade is
\* routed only while the server of the object listens.
C22_LifecycleOrder ==
    [][/\ (Start /\ server' # server) => bound = {}
       /\ Stop => bound' = {}
       /\ BagCardinality(reqs') > BagCardinality(reqs) => server \in bound]_vars

\* C23: stop() tears down the two clients start() made: after stop() the object
\* holds neither, and no request is forwarded by either once stop() has returned.
C23_StopTearsDownClients ==
    [][/\ (Stop /\ server # Null) => (appProxy' = Null /\ apiProxy' = Null)
       /\ \A q \in InFlight :
             (ProxyReq(q) /\ q.client.handlers \in {"app", "api"}) => call # "stop"]_vars

\* C24: handleSPAFallback rewrites the path to '/' and forwards the request to
\* the app target http://localhost:{appPort}, whatever the path was, a path
\* under '/api/' included; it never forwards to the API target.
C24_FallbackServesRootFromApp ==
    \A q \in InFlight :
        q.entry = "handleSPAFallback" =>
            /\ q.url = <<"/">>
            /\ q.client.target = [base |-> "http://localhost:", port |-> config.appPort.n]
            /\ q.client.target.base # config.apiBaseUrl.s
            /\ Forwarded(q) =>
                  /\ q.out.url = <<"/">>
                  /\ q.out.target = [base |-> "http://localhost:", port |-> config.appPort.n]

C24_Witness ==
    \E q \in InFlight :
        /\ q.entry = "handleSPAFallback" /\ q.stage = "forwarded"
        /\ q.inUrl = <<"/", "a", "p", "i", "/", "u">>
        /\ q.out.url = <<"/">>

\* C25: every header of an upstream response is on the response to the caller
\* with its name and its value as the upstream sent them, none filtered; every
\* occurrence of Set-Cookie reaches the caller.
C25_UpstreamHeadersPassThrough ==
    [][\A q \in InFlight, up \in UpHeaders :
          UpstreamResponse(q, up) =>
              \E r \in BagToSet(reqs') :
                  /\ reqs' = Replace(reqs, q, r)
                  /\ r.stage = "responded"
                  /\ \A k \in DOMAIN up :
                        k \in DOMAIN r.res.headers /\ r.res.headers[k] = up[k]]_vars

C25_Witness ==
    /\ \E q \in InFlight :
          /\ q.stage = "responded" /\ IsApiClient(q.client)
          /\ "set-cookie" \in DOMAIN q.res.headers
          /\ q.res.headers["set-cookie"] = <<"sid=2; Path=/", "theme=dark">>
    /\ \E q \in InFlight :
          /\ q.stage = "responded" /\ IsAppClient(q.client)
          /\ "set-cookie" \in DOMAIN q.res.headers
          /\ Len(q.res.headers["set-cookie"]) = 2

\* C26: every inbound header other than Host is on the request forwarded to the
\* API target with its inbound value, except x-app-environment when apiLocal is
\* false; cookies and custom headers are never dropped.
C26_InboundHeadersForwardedToApi ==
    \A q \in InFlight :
        (Forwarded(q) /\ q.out.target.base = config.apiBaseUrl.s) =>
            \A k \in DOMAIN q.headers \ {"host"} :
                /\ k \in DOMAIN q.out.headers
                /\ (k # "x-app-environment" \/ Truthy(config.apiLocal)) =>
                      q.out.headers[k] = q.headers[k]

C26_Witness ==
    \E q \in InFlight :
        /\ q.kind = "http" /\ q.stage = "forwarded"
        /\ q.out.target.base = config.apiBaseUrl.s
        /\ "cookie" \in DOMAIN q.headers
        /\ "cookie" \in DOMAIN q.out.headers
        /\ q.out.headers["cookie"] = "sid=1"

\* C27: when an upstream error arrives after the response headers were sent to
\* the caller, the 'error' handler of neither client writes a status line, a
\* header or a body to that response, and it does not throw: the response is
\* left as it was.
C27_NoWriteAfterHeadersSent ==
    [][\A q \in InFlight, code \in ErrorCodes :
          (/\ UpstreamError(q, code)
           /\ q.kind = "http"
           /\ q.client.handlers \in {"app", "api"}
           /\ q.res.headersSent) =>
              /\ ~crashed'
              /\ \E r \in BagToSet(reqs') :
                    /\ reqs' = Replace(reqs, q, r)
                    /\ r.stage = "failed"
                    /\ r.res.writeHeads = q.res.writeHeads
                    /\ r.res.statusCode = q.res.statusCode
                    /\ r.res.headers = q.res.headers
                    /\ r.res.body = q.res.body
                    /\ r.res.ended = q.res.ended]_vars

C27_Witness ==
    /\ \E q \in InFlight :
          /\ q.stage = "failed" /\ q.kind = "http" /\ IsApiClient(q.client)
          /\ q.res.statusCode = 200 /\ q.res.writeHeads = 1 /\ q.res.body = ""
    /\ \E q \in InFlight :
          /\ q.stage = "failed" /\ q.kind = "http" /\ IsAppClient(q.client)
          /\ q.res.statusCode = 200 /\ q.res.writeHeads = 1 /\ q.res.body = ""

\* C28: every proxied response, of the app client as of the API client, has
\* exactly one response log line when showLogs is enabled and none when it is
\* disabled.
ResponseLogLines(q) ==
    Cardinality({i \in DOMAIN q.logs :
                    q.logs[i] = <<"log", "[PROXY] Response: status METHOD url">>})

C28_ResponseLoggedForBothRoles ==
    \A q \in InFlight :
        (q.kind = "http" /\ q.stage = "responded"
            /\ q.client.handlers \in {"app", "api"}) =>
            ResponseLogLines(q) = (IF Truthy(config.showLogs) THEN 1 ELSE 0)

\* C29: a request routed to the app target leaves the proxy with the headers it
\* came with, but for Host, which change-origin sets to the target's: no
\* x-app-environment header is injected whatever apiLocal is, and no inbound
\* header is removed or changed.
C29_AppRequestHeadersUntouched ==
    \A q \in InFlight :
        (/\ Forwarded(q)
         /\ q.out.target = [base |-> "http://localhost:", port |-> config.appPort.n]) =>
            /\ DOMAIN q.out.headers = DOMAIN q.headers \cup {"host"}
            /\ \A k \in DOMAIN q.headers \ {"host"} : q.out.headers[k] = q.headers[k]
            /\ q.out.headers["host"] = "localhost:5173"

C29_Witness ==
    \E q \in InFlight :
        /\ Forwarded(q)
        /\ q.kind = "http"
        /\ IsAppClient(q.client)
        /\ ~Truthy(config.apiLocal)
        /\ q.headers = HEnv
        /\ q.out.headers["x-app-environment"] = "production"
        /\ q.out.headers["cookie"] = "sid=1"

\* C30: handling requests and upgrades, however many are in flight and however
\* their steps interleave, writes none of the configuration, the app client
\* reference, the API client reference and the server reference: a step that
\* changes one of them is the constructor or start(), and the configuration does
\* not change once the constructor has returned.
C30_RequestHandlingWritesNoSharedState ==
    [][/\ reqs' # reqs => UNCHANGED <<config, appProxy, apiProxy, server>>
       /\ <<config, appProxy, apiProxy, server>>' # <<config, appProxy, apiProxy, server>>
             => (Construct \/ Start)
       /\ phase # "new" => config' = config]_vars

C30_Witness ==
    /\ phase = "constructed"
    /\ server \in bound
    /\ appProxy # Null /\ apiProxy # Null
    /\ \E q, r \in InFlight :
          /\ q.kind = "ws" /\ q.stage = "forwarded" /\ IsAppClient(q.client)
          /\ r.kind = "http" /\ r.stage = "responded" /\ IsApiClient(r.client)

\* C31: the constructor accepts a configuration only when appPort and proxyPort
\* are positive integers; a negative number, a non-integer number or a string
\* given for either port makes it throw.
IsPositiveInteger(v) == v.t = "number" /\ v.n > 0

C31_PortsArePositiveIntegers ==
    phase = "constructed" =>
        IsPositiveInteger(input.appPort) /\ IsPositiveInteger(input.proxyPort)

\* C32: a WebSocket upgrade handshake forwarded to the API target gets the same
\* request-direction transform as a plain HTTP request: the inbound Host is not
\* the one sent, and x-app-environment: local is set when apiLocal is false.
C32_TransformAppliesToUpgrades ==
    \A q \in InFlight :
        (Forwarded(q) /\ q.kind \in {"http", "ws"} /\ IsApiClient(q.client)) =>
            /\ q.out.headers["host"] # InHost
            /\ ~Truthy(config.apiLocal) =>
                  /\ "x-app-environment" \in DOMAIN q.out.headers
                  /\ q.out.headers["x-app-environment"] = "local"

\* C33: whenever a server of the proxy listens, and so may dispatch a request or
\* an upgrade, this.appProxy and this.apiProxy are both set and each has its
\* handlers registered; every request dispatched by routeRequest or by the
\* upgrade handler is held by a client with its handlers.
C33_ClientsReadyBeforeDispatch ==
    /\ bound # {} =>
          /\ appProxy # Null /\ appProxy \in DOMAIN proxies
          /\ apiProxy # Null /\ apiProxy \in DOMAIN proxies
          /\ proxies[appProxy].handlers = "app"
          /\ proxies[apiProxy].handlers = "api"
    /\ \A q \in InFlight :
          q.entry \in {"routeRequest", "upgrade"} =>
              q.client.handlers = (IF IsApiPath(q.inUrl) THEN "api" ELSE "app")

C33_Witness ==
    /\ bound # {}
    /\ \E q, r \in InFlight :
          /\ q.entry = "routeRequest" /\ q.stage = "routed" /\ IsApiPath(q.inUrl)
          /\ r.entry = "upgrade" /\ r.stage = "routed" /\ ~IsApiPath(r.inUrl)

\* C34: a start() that throws because a certificate file is missing changes
\* nothing of the object: appProxy, apiProxy and server are null as the
\* constructor left them and no server listens; the stop() that follows closes
\* nothing, changes nothing and does not throw.
C34_FailedStartLeavesObjectUntouched ==
    [][/\ (Start /\ thrown' # NoError) =>
             /\ appProxy' = Null /\ apiProxy' = Null /\ server' = Null
             /\ bound' = {} /\ pendingErr' = {}
             /\ UNCHANGED <<config, appProxy, apiProxy, server, proxies, nServers, bound>>
       /\ (Stop /\ call = "start" /\ thrown # NoError) =>
             /\ thrown' = NoError
             /\ UNCHANGED <<config, appProxy, apiProxy, server, proxies, nServers, bound>>]_vars

C34_Witness ==
    /\ call = "stop"
    /\ thrown = NoError
    /\ phase = "constructed"
    /\ loadSSLCertificates(config, files).threw
    /\ certPath(config) \notin files /\ keyPath(config) \in files
    /\ appProxy = Null /\ apiProxy = Null /\ server = Null /\ bound = {}

\* C35: an HTTP request whose upstream failed does not stay open: whenever the
\* response of a failed request is neither ended nor destroyed, it is later
\* ended or destroyed (or the request is gone).
HttpFailedOpen ==
    \E q \in InFlight :
        /\ q.kind = "http" /\ q.stage = "failed"
        /\ q.client.handlers \in {"app", "api"}
        /\ ~q.res.ended /\ ~q.res.destroyed

C35_FailedRequestsReachTerminalState == HttpFailedOpen ~> ~HttpFailedOpen

\* C36: an upstream error of a request forwarded by handleSPAFallback is handled
\* as the app client handles it: the process goes on, a refused connection is
\* dropped (the connection destroyed) and another error is answered.
C36_FallbackErrorsAreHandled ==
    [][\A q \in InFlight, code \in ErrorCodes :
          (UpstreamError(q, code) /\ q.entry = "handleSPAFallback") =>
              /\ ~crashed'
              /\ \E r \in BagToSet(reqs') :
                    /\ reqs' = Replace(reqs, q, r)
                    /\ r.stage = "failed"
                    /\ r.res = appOnError(code, q.res, FALSE).res]_vars

====
